---- MODULE Spec2Model ----
(***************************************************************************)
(* RoastRank (src/main.py, second revision, lines 212-478): a FastAPI      *)
(* service that extracts the text of an uploaded resume, asks an LLM for a *)
(* JSON "roast", stores it in the sqlite table roasts and serves a         *)
(* leaderboard.                                                            *)
(*                                                                         *)
(* Text is modelled as a sequence of tokens, each token standing for the   *)
(* characters of one lexeme, so that str.replace and json.loads act on it  *)
(* as they act on the characters.                                          *)
(***************************************************************************)
EXTENDS Integers, Sequences, FiniteSets, TLC

(***************************************************************************)
(* Bounds of the model.                                                    *)
(***************************************************************************)
\* requests of one run of the general specification
MaxUploads == 2
\* clock ticks of one run
MaxClock == 2
\* clock ticks per second of created_at
TicksPerSecond == 2
\* requests of one burst (SpecBurst)
BurstN == 11
\* largest integer a TEXT value of the score column is compared with
MaxNumericText == 100

(***************************************************************************)
(* Tokens of a text.                                                       *)
(***************************************************************************)
Tok(t, s, i) == [t |-> t, s |-> s, i |-> i]
LBrace == Tok("{", "", 0)
RBrace == Tok("}", "", 0)
LBrack == Tok("[", "", 0)
RBrack == Tok("]", "", 0)
Comma == Tok(",", "", 0)
Colon == Tok(":", "", 0)
Space == Tok("ws", " ", 0)
Newline == Tok("ws", "\n", 0)
\* the code-fence openers and closers of a markdown block (three backquotes)
FenceJson == Tok("fence_json", "", 0)
Fence == Tok("fence", "", 0)
Prose(s) == Tok("prose", s, 0)
StrLit(s) == Tok("str", s, 0)
IntLit(i) == Tok("int", "", i)
NullLit == Tok("null", "", 0)
TrueLit == Tok("true", "", 0)

(***************************************************************************)
(* Python values as json.loads builds them: None, bool, int, str, list,    *)
(* dict.  A list or dict keeps its members in o, a member being a key (""  *)
(* in a list) and a value.                                                 *)
(***************************************************************************)
JVal(k, i, s, o) == [k |-> k, i |-> i, s |-> s, o |-> o]
JNone == JVal("none", 0, "", <<>>)
JBool(b) == JVal("bool", IF b THEN 1 ELSE 0, "", <<>>)
JInt(i) == JVal("int", i, "", <<>>)
JStr(s) == JVal("str", 0, s, <<>>)
JList(items) == JVal("list", 0, "", items)
JDict(members) == JVal("dict", 0, "", members)
Member(key, val) == [key |-> key, val |-> val]

\* str.replace(old, new), leftmost non-overlapping occurrences
RECURSIVE Replace(_, _, _)
Replace(text, old, new) ==
    IF Len(text) < Len(old) THEN text
    ELSE IF SubSeq(text, 1, Len(old)) = old
         THEN new \o Replace(SubSeq(text, Len(old) + 1, Len(text)), old, new)
         ELSE <<Head(text)>> \o Replace(Tail(text), old, new)

\* first position from p on that holds no whitespace
RECURSIVE SkipWs(_, _)
SkipWs(toks, p) ==
    IF p <= Len(toks) /\ toks[p].t = "ws" THEN SkipWs(toks, p + 1) ELSE p

ParseFail == [ok |-> FALSE, val |-> JNone, pos |-> 0]
ParseOk(v, p) == [ok |-> TRUE, val |-> v, pos |-> p]

\* json.loads: one JSON value between optional whitespace, nothing else
RECURSIVE ParseValue(_, _)
RECURSIVE ParseMembers(_, _, _)
RECURSIVE ParseItems(_, _, _)
ParseValue(toks, p) ==
    LET q == SkipWs(toks, p) IN
    IF q > Len(toks) THEN ParseFail
    ELSE CASE toks[q].t = "int" -> ParseOk(JInt(toks[q].i), q + 1)
           [] toks[q].t = "str" -> ParseOk(JStr(toks[q].s), q + 1)
           [] toks[q].t = "null" -> ParseOk(JNone, q + 1)
           [] toks[q].t = "true" -> ParseOk(JBool(TRUE), q + 1)
           [] toks[q].t = "{" ->
                LET q2 == SkipWs(toks, q + 1) IN
                IF q2 <= Len(toks) /\ toks[q2].t = "}"
                THEN ParseOk(JDict(<<>>), q2 + 1)
                ELSE ParseMembers(toks, q2, <<>>)
           [] toks[q].t = "[" ->
                LET q2 == SkipWs(toks, q + 1) IN
                IF q2 <= Len(toks) /\ toks[q2].t = "]"
                THEN ParseOk(JList(<<>>), q2 + 1)
                ELSE ParseItems(toks, q2, <<>>)
           [] OTHER -> ParseFail

ParseMembers(toks, p, acc) ==
    LET q == SkipWs(toks, p) IN
    IF q > Len(toks) \/ toks[q].t # "str" THEN ParseFail
    ELSE LET c == SkipWs(toks, q + 1) IN
         IF c > Len(toks) \/ toks[c].t # ":" THEN ParseFail
         ELSE LET v == ParseValue(toks, c + 1) IN
              IF ~v.ok THEN ParseFail
              ELSE LET e == SkipWs(toks, v.pos)
                       acc2 == Append(acc, Member(toks[q].s, v.val))
                   IN IF e > Len(toks) THEN ParseFail
                      ELSE IF toks[e].t = "}" THEN ParseOk(JDict(acc2), e + 1)
                      ELSE IF toks[e].t = "," THEN ParseMembers(toks, e + 1, acc2)
                      ELSE ParseFail

ParseItems(toks, p, acc) ==
    LET v == ParseValue(toks, p) IN
    IF ~v.ok THEN ParseFail
    ELSE LET e == SkipWs(toks, v.pos)
             acc2 == Append(acc, Member("", v.val))
         IN IF e > Len(toks) THEN ParseFail
            ELSE IF toks[e].t = "]" THEN ParseOk(JList(acc2), e + 1)
            ELSE IF toks[e].t = "," THEN ParseItems(toks, e + 1, acc2)
            ELSE ParseFail

\* json.loads(block) inside try/except: the value, or None when it raises
JsonLoads(toks) ==
    LET r == ParseValue(toks, 1) IN
    IF r.ok /\ SkipWs(toks, r.pos) > Len(toks) THEN r.val ELSE JNone

\* try_parse_json(block)
try_parse_json(block) ==
    LET b1 == Replace(Replace(block, <<FenceJson>>, <<>>), <<Fence>>, <<>>)
        b2 == Replace(b1, <<Newline>>, <<Space>>)
        b3 == Replace(b2, <<Comma, Space, RBrace>>, <<RBrace>>)
        b4 == Replace(b3, <<Comma, Space, RBrack>>, <<RBrack>>)
    IN JsonLoads(b4)

\* the truth value Python gives a parsed value (if not data)
Truthy(v) ==
    CASE v.k = "none" -> FALSE
      [] v.k = "bool" -> v.i = 1
      [] v.k = "int" -> v.i # 0
      [] v.k = "str" -> v.s # ""
      [] OTHER -> Len(v.o) > 0

\* dict.get(key, default): the last member with the key wins in json.loads
HasKey(d, key) == \E n \in 1..Len(d.o) : d.o[n].key = key
DictGet(d, key, default) ==
    IF HasKey(d, key)
    THEN d.o[CHOOSE n \in 1..Len(d.o) :
                /\ d.o[n].key = key
                /\ \A m \in (n + 1)..Len(d.o) : d.o[m].key # key].val
    ELSE default

\* the fallback roast of roast_resume
Fallback ==
    JDict(<< Member("one_line", JStr("Your resume confused the AI - that's already a roast.")),
             Member("overview", JStr("The model failed to extract structured output.")),
             Member("detailed", JStr("")),
             Member("improvements", JStr("")),
             Member("fun_obs", JStr("Even the AI rage quit.")),
             Member("score", JInt(25)) >>)

\* roast_resume after the upstream call returned output
RoastOf(output) ==
    LET data == try_parse_json(output) IN
    IF ~Truthy(data) THEN Fallback ELSE data

(***************************************************************************)
(* Uploaded files.  A text is a sequence of lines, a line a sequence of    *)
(* words; the empty text is <<>>.  The bytes of a file are what they       *)
(* really hold (kind), the text the parser of that kind extracts (parsed)  *)
(* and the text bytes.decode(errors="ignore") yields (decoded).            *)
(***************************************************************************)
Bytes(id, kind, parsed, decoded) ==
    [id |-> id, kind |-> kind, parsed |-> parsed, decoded |-> decoded]
File(ext, bytes) == [ext |-> ext, bytes |-> bytes]

JanePdf == Bytes("jane", "pdf", << <<"Jane", "Doe">>, <<"Engineer">> >>, << <<"%PDF-1.4">> >>)
CorruptDocx == Bytes("corrupt", "binary", <<>>, << <<"PK">> >>)
PhotoPng == Bytes("photo", "binary", <<>>, << <<"PNG">> >>)
JohnTxt == Bytes("john", "text", <<>>, << <<>>, <<"John", "Q.", "Public">>, <<"Python,", "SQL">> >>)

\* the files the specifications draw from
Files == {File("pdf", JanePdf), File("png", PhotoPng)}
UploadFiles == {File("pdf", JanePdf), File("docx", CorruptDocx), File("png", PhotoPng)}
NormalizeFiles == {File("txt", JohnTxt)}
BurstFiles == {File("pdf", JanePdf)}
Modes == {"quick", "full"}
NoFile == File("", Bytes("", "", <<>>, <<>>))

\* extract_text_from_file(file)
extract_text_from_file(file) ==
    CASE file.ext = "pdf" -> IF file.bytes.kind = "pdf" THEN file.bytes.parsed ELSE <<>>
      [] file.ext = "docx" -> IF file.bytes.kind = "docx" THEN file.bytes.parsed ELSE <<>>
      [] file.ext = "doc" -> file.bytes.decoded
      [] OTHER -> file.bytes.decoded

\* words p for which p.replace(".", "").isalpha()
AlphaWords == {"Jane", "Doe", "Engineer", "John", "Q.", "Public", "PNG", "PK", "SQL"}
Anonymous == <<"Anonymous">>

\* guess_name(text)
guess_name(text) ==
    LET lines == SelectSeq(text, LAMBDA l : Len(l) > 0) IN
    IF Len(lines) = 0 THEN Anonymous
    ELSE LET parts == lines[1] IN
         IF /\ 2 <= Len(parts) /\ Len(parts) <= 4
            /\ \A n \in 1..Len(parts) : parts[n] \in AlphaWords
         THEN parts
         ELSE Anonymous

(***************************************************************************)
(* What the upstream call client.responses.create can do: raise, or return *)
(* output text.                                                            *)
(***************************************************************************)
Raises == [raises |-> TRUE, text |-> <<>>]
Returns(text) == [raises |-> FALSE, text |-> text]
Pending == [raises |-> FALSE, text |-> <<Prose("pending")>>]

\* the tokens of name: value
Pair(name, valueTok) == <<StrLit(name), Colon, Space, valueTok>>
\* the tokens of an object of one or two members, tr between the last member and }
Obj2(p1, p2, tr) == <<LBrace>> \o p1 \o <<Comma, Space>> \o p2 \o tr \o <<RBrace>>
RECURSIVE JoinPairs(_)
JoinPairs(ps) ==
    IF Len(ps) = 0 THEN <<>>
    ELSE IF Len(ps) = 1 THEN ps[1]
    ELSE ps[1] \o <<Comma, Space>> \o JoinPairs(Tail(ps))
ObjN(ps, tr) == <<LBrace>> \o JoinPairs(ps) \o tr \o <<RBrace>>

FullObject ==
    ObjN(<< Pair("one_line", StrLit("Two pages of buzzwords")),
            Pair("overview", StrLit("Synergy everywhere")),
            Pair("detailed", StrLit("Nine fonts")),
            Pair("improvements", StrLit("Delete page two")),
            Pair("fun_obs", StrLit("Lists Excel twice")),
            Pair("score", IntLit(85)) >>, <<>>)
\* the output of the spec's scenario: Sure! {"score": 85, "one_line": "Nice CV",}
SureObject ==
    <<Prose("Sure!"), Space>>
        \o Obj2(Pair("score", IntLit(85)), Pair("one_line", StrLit("Nice CV")), <<Comma>>)

\* the outcomes the specifications draw from
Outcomes == {Raises, Returns(FullObject), Returns(SureObject)}
UploadOutcomes ==
    {Raises, Returns(FullObject), Returns(SureObject), Returns(<<LBrack, IntLit(1), RBrack>>)}
BurstOutcomes == {Returns(FullObject)}

(***************************************************************************)
(* The outputs SpecNormalize draws from: an object (core) with or without  *)
(* a trailing comma (tr), bare, after prose or inside a code fence (wrap), *)
(* and outputs that are no object.                                         *)
(***************************************************************************)
Cores ==
    << << Pair("score", IntLit(85)), Pair("one_line", StrLit("Nice CV")) >>,
       << Pair("one_line", StrLit("Two pages of buzzwords")),
          Pair("overview", StrLit("Synergy everywhere")),
          Pair("detailed", StrLit("Nine fonts")),
          Pair("improvements", StrLit("Delete page two")),
          Pair("fun_obs", StrLit("Lists Excel twice")),
          Pair("score", IntLit(85)) >>,
       << Pair("score", IntLit(1000)), Pair("one_line", StrLit("Nice CV")) >>,
       << Pair("score", StrLit("high")), Pair("one_line", StrLit("Nice CV")) >>,
       << Pair("score", StrLit("85")), Pair("one_line", StrLit("Nice CV")) >>,
       << Pair("one_line", StrLit("Nice CV")) >>,
       << Pair("score", NullLit), Pair("one_line", StrLit("")) >>,
       << Pair("score", IntLit(50)), Pair("one_line", IntLit(7)) >>,
       << Pair("score", IntLit(85)), <<StrLit("one_line"), Colon, Space, LBrack, RBrack>> >> >>
\* the cores that are objects of plain field values with an integer score
PlainCores == {1, 2}
Trailings == {<<>>, <<Comma>>, <<Comma, Space>>, <<Comma, Newline>>}
Wraps == {"bare", "prose", "fence"}
Shapes == [core : 1..Len(Cores), tr : Trailings, wrap : Wraps]
Render(shape) ==
    LET obj == ObjN(Cores[shape.core], shape.tr) IN
    CASE shape.wrap = "prose" -> <<Prose("Sure!"), Space>> \o obj
      [] shape.wrap = "fence" -> <<FenceJson, Newline>> \o obj \o <<Newline, Fence>>
      [] OTHER -> obj
\* the object the output of a shape holds
Intended(shape) == JsonLoads(ObjN(Cores[shape.core], <<>>))
NonObjects ==
    { <<>>, <<Prose("I cannot roast this.")>>, <<LBrack, IntLit(1), RBrack>>,
      <<LBrack, RBrack>>, <<IntLit(5)>>, <<IntLit(0)>>, <<StrLit("roast")>>,
      <<NullLit>>, <<TrueLit>>, <<LBrace, RBrace>> }
NormalizeOutcomes ==
    {Raises} \cup {Returns(Render(shape)) : shape \in Shapes}
             \cup {Returns(text) : text \in NonObjects}

(***************************************************************************)
(* The state: the table roasts, the wall clock, and per POST /upload       *)
(* request its place in the handler, its inputs, what the upstream call    *)
(* did and the response; the upstream calls made and the roast_resume      *)
(* invocations; the rows the last GET /leaderboard returned.               *)
(***************************************************************************)
VARIABLES roasts, now, pc, req, upstream, resp, created, invoked, lb, lbAt

vars == <<roasts, now, pc, req, upstream, resp, created, invoked, lb, lbAt>>

Requests == DOMAIN pc

NoResp ==
    [status |-> "none", error |-> "", name |-> <<>>, score |-> JNone,
     one_line |-> JNone, overview |-> JNone, detailed |-> JNone,
     improvements |-> JNone, fun_obs |-> JNone]

\* the table is empty when roasts.db is new, and holds the rows of earlier runs otherwise
EarlierRow ==
    [name |-> Anonymous, score |-> JInt(25), one_line |-> JStr("Your resume confused the AI - that's already a roast."),
     overview |-> JStr("The model failed to extract structured output."),
     detailed |-> JStr(""), improvements |-> JStr(""),
     fun_obs |-> JStr("Even the AI rage quit."), created_at |-> 0]

InitOver(R, tables) ==
    /\ roasts \in tables
    /\ now = 0
    /\ pc = [r \in R |-> "new"]
    /\ req = [r \in R |-> [file |-> NoFile, mode |-> ""]]
    /\ upstream = [r \in R |-> Pending]
    /\ resp = [r \in R |-> NoResp]
    /\ created = <<>>
    /\ invoked = [r \in R |-> 0]
    /\ lb = <<>>
    /\ lbAt = -1

\* no request is inside the blocking call of roast_resume (it holds the event loop)
LoopFree == \A q \in Requests : pc[q] # "calling"

\* POST /upload arrives; the handler runs to "raw = await file.read()".
\* Requests are numbered in the order they arrive.
UploadStart(r, file, mode) ==
    /\ LoopFree
    /\ pc[r] = "new"
    /\ \A q \in Requests : q < r => pc[q] # "new"
    /\ pc' = [pc EXCEPT ![r] = "reading"]
    /\ req' = [req EXCEPT ![r] = [file |-> file, mode |-> mode]]
    /\ UNCHANGED <<roasts, now, upstream, resp, created, invoked, lb, lbAt>>

\* the request client.responses.create sends for a text and a mode
Prompt(r) ==
    [mode |-> IF req[r].mode = "full" THEN "full" ELSE "quick",
     text |-> extract_text_from_file(req[r].file)]

\* UploadCall as it would be if upload stored a placeholder row before generation
UploadCallPlaceholder(r) ==
    /\ LoopFree
    /\ pc[r] = "reading"
    /\ pc' = [pc EXCEPT ![r] = "calling"]
    /\ invoked' = [invoked EXCEPT ![r] = @ + 1]
    /\ created' = Append(created, Prompt(r))
    /\ roasts' = Append(roasts,
            [name |-> guess_name(extract_text_from_file(req[r].file)), score |-> JNone,
             one_line |-> JNone, overview |-> JNone, detailed |-> JNone,
             improvements |-> JNone, fun_obs |-> JNone, created_at |-> now \div TicksPerSecond])
    /\ UNCHANGED <<now, req, upstream, resp, lb, lbAt>>

\* file.read() is done: the text is extracted, the name guessed, roast_resume
\* invoked and its upstream request sent; the handler blocks in the call.
UploadCall(r) ==
    /\ LoopFree
    /\ pc[r] = "reading"
    /\ pc' = [pc EXCEPT ![r] = "calling"]
    /\ invoked' = [invoked EXCEPT ![r] = @ + 1]
    /\ created' = Append(created, Prompt(r))
    /\ UNCHANGED <<roasts, now, req, upstream, resp, lb, lbAt>>

\* the values sqlite3 binds as parameters: None, int (bool), str
Bindable(v) == v.k \in {"none", "bool", "int", "str"}

\* the value a column of INTEGER affinity stores
IntegerAffinity(v) ==
    CASE v.k = "bool" -> JInt(v.i)
      [] v.k = "str" ->
            IF \E n \in 0..MaxNumericText : ToString(n) = v.s
            THEN JInt(CHOOSE n \in 0..MaxNumericText : ToString(n) = v.s)
            ELSE v
      [] OTHER -> v

\* the value a column of TEXT affinity stores
TextAffinity(v) ==
    IF v.k \in {"bool", "int"} THEN JStr(ToString(v.i)) ELSE v

\* datetime.utcnow().strftime("%Y-%m-%d %H:%M:%S"): the clock cut to the second
CreatedAt(t) == t \div TicksPerSecond

\* InsertRow as it would be with INSERT OR REPLACE on a table keyed by name
InsertOrReplace(table, row) ==
    IF \E n \in 1..Len(table) : table[n].name = row.name
    THEN [table EXCEPT ![CHOOSE n \in 1..Len(table) : table[n].name = row.name] = row]
    ELSE Append(table, row)

\* INSERT INTO roasts
InsertRow(table, row) == Append(table, row)

\* the response of a handler that raised
Failed(error) == [NoResp EXCEPT !.status = "error", !.error = error]

\* roast.get(...) of upload on the roast roast_resume returned, then the INSERT
\* and the result page; a raise ends the request with no row
Stored(r, roast) ==
    LET score == DictGet(roast, "score", JInt(50))
        one_line == DictGet(roast, "one_line", JStr(""))
        overview == DictGet(roast, "overview", JStr(""))
        detailed == DictGet(roast, "detailed", JStr(""))
        improvements == DictGet(roast, "improvements", JStr(""))
        fun_obs == DictGet(roast, "fun_obs", JStr(""))
        name == guess_name(extract_text_from_file(req[r].file))
    IN IF \A v \in {score, one_line, overview, detailed, improvements, fun_obs} : Bindable(v)
       THEN /\ roasts' = InsertRow(roasts,
                    [name |-> name, score |-> IntegerAffinity(score),
                     one_line |-> TextAffinity(one_line),
                     overview |-> TextAffinity(overview),
                     detailed |-> TextAffinity(detailed),
                     improvements |-> TextAffinity(improvements),
                     fun_obs |-> TextAffinity(fun_obs),
                     created_at |-> CreatedAt(now)])
            /\ pc' = [pc EXCEPT ![r] = "done"]
            /\ resp' = [resp EXCEPT ![r] =
                    [status |-> "result", error |-> "", name |-> name, score |-> score,
                     one_line |-> one_line, overview |-> overview,
                     detailed |-> detailed, improvements |-> improvements,
                     fun_obs |-> fun_obs]]
       ELSE /\ pc' = [pc EXCEPT ![r] = "error"]
            /\ resp' = [resp EXCEPT ![r] = Failed("ProgrammingError")]
            /\ UNCHANGED roasts

\* what the end of the upstream call does to the request and the table: a raise ends
\* the request; output is parsed by roast_resume and stored by upload
Returned(r, out) ==
    /\ upstream' = [upstream EXCEPT ![r] = out]
    /\ IF out.raises
       THEN /\ pc' = [pc EXCEPT ![r] = "error"]
            /\ resp' = [resp EXCEPT ![r] = Failed("upstream")]
            /\ UNCHANGED roasts
       ELSE LET roast == RoastOf(out.text) IN
            IF roast.k # "dict"
            THEN /\ pc' = [pc EXCEPT ![r] = "error"]
                 /\ resp' = [resp EXCEPT ![r] = Failed("AttributeError")]
                 /\ UNCHANGED roasts
            ELSE Stored(r, roast)

\* UploadReturn as it would be if roast_resume sent its request again after a raise
UploadReturnRetry(r, out) ==
    /\ pc[r] = "calling"
    /\ Returned(r, out)
    /\ created' = IF out.raises THEN Append(created, Prompt(r)) ELSE created
    /\ UNCHANGED <<now, req, invoked, lb, lbAt>>

\* the upstream call ends, and with it the request
UploadReturn(r, out) ==
    /\ pc[r] = "calling"
    /\ Returned(r, out)
    /\ UNCHANGED <<now, req, created, invoked, lb, lbAt>>

\* GET /: the index page
home ==
    /\ LoopFree
    /\ UNCHANGED vars

\* the storage classes of sqlite in their sort order: NULL, INTEGER, TEXT
StorageClass(v) == CASE v.k = "none" -> 0 [] v.k = "int" -> 1 [] OTHER -> 2
\* the TEXT values a score can keep, in the order memcmp gives them
TextsInOrder == <<"", "high">>
TextRank(t) == CHOOSE n \in 1..Len(TextsInOrder) : TextsInOrder[n] = t
\* a sorts before b under ORDER BY x DESC
ScoreAbove(a, b) ==
    \/ StorageClass(a) > StorageClass(b)
    \/ /\ StorageClass(a) = 1 /\ StorageClass(b) = 1 /\ a.i > b.i
    \/ /\ StorageClass(a) = 2 /\ StorageClass(b) = 2 /\ TextRank(a.s) > TextRank(b.s)
\* row a must come before row b under ORDER BY score DESC, created_at DESC
RowBefore(a, b) ==
    \/ ScoreAbove(a.score, b.score)
    \/ /\ ~ScoreAbove(b.score, a.score)
       /\ a.created_at > b.created_at

LeaderboardLimit == 100
\* SELECT name, score, one_line, created_at
Selected(row) ==
    [name |-> row.name, score |-> row.score, one_line |-> row.one_line,
     created_at |-> row.created_at]
\* the orders of the rows S of the table that ORDER BY score DESC, created_at DESC
\* allows: any row that no other must precede comes first
RECURSIVE OrdersOf(_, _)
OrdersOf(table, S) ==
    IF S = {} THEN {<<>>}
    ELSE UNION { {<<n>> \o p : p \in OrdersOf(table, S \ {n})} :
                 n \in {m \in S : \A k \in S : ~RowBefore(table[k], table[m])} }
Orders(table) == OrdersOf(table, 1..Len(table))
\* the results the query of leaderboard can return
LeaderboardRows(table) ==
    { [n \in 1..(IF Len(table) < LeaderboardLimit THEN Len(table) ELSE LeaderboardLimit)
          |-> Selected(table[p[n]])] : p \in Orders(table) }

\* GET /leaderboard
leaderboard ==
    /\ LoopFree
    /\ lb' \in LeaderboardRows(roasts)
    /\ lbAt' = Len(roasts)
    /\ UNCHANGED <<roasts, now, pc, req, upstream, resp, created, invoked>>

\* the wall clock advances
Tick ==
    /\ now < MaxClock
    /\ now' = now + 1
    /\ UNCHANGED <<roasts, pc, req, upstream, resp, created, invoked, lb, lbAt>>

\* the steps of POST /upload for the files, modes and upstream outcomes drawn
Uploads(files, modes, outcomes) ==
    \/ \E r \in Requests, file \in files, mode \in modes : UploadStart(r, file, mode)
    \/ \E r \in Requests : UploadCall(r)
    \/ \E r \in Requests, out \in outcomes : UploadReturn(r, out)

\* the service: uploads, the index page, the leaderboard, the clock
Init == InitOver(1..MaxUploads, {<<>>, <<EarlierRow>>})
Next ==
    \/ Uploads(Files, {"quick"}, Outcomes)
    \/ home
    \/ leaderboard
    \/ Tick
Spec == Init /\ [][Next]_vars

\* uploads of more files and outcomes, the clock standing still
InitUpload == InitOver(1..MaxUploads, {<<>>})
NextUpload ==
    \/ Uploads(UploadFiles, Modes, UploadOutcomes)
    \/ home
SpecUpload == InitUpload /\ [][NextUpload]_vars

\* one upload, over every output of the family
InitNormalize == InitOver({1}, {<<>>})
NextNormalize ==
    \/ Uploads(NormalizeFiles, Modes, NormalizeOutcomes)
    \/ Tick
SpecNormalize == InitNormalize /\ [][NextNormalize]_vars

\* a burst of uploads of one caller on one day
InitBurst == InitOver(1..BurstN, {<<>>})
NextBurst == Uploads(BurstFiles, {"quick"}, BurstOutcomes)
SpecBurst == InitBurst /\ [][NextBurst]_vars

(***************************************************************************)
(* Properties.                                                             *)
(***************************************************************************)
Finished(r) == pc[r] \in {"done", "error"}
Started(r) == pc[r] # "new"

\* the roast_resume invocations of a set of requests
RECURSIVE Invocations(_)
Invocations(S) ==
    IF S = {} THEN 0
    ELSE LET r == CHOOSE x \in S : TRUE IN invoked[r] + Invocations(S \ {r})

\* the requests that carry the file content b
Carrying(b) == {r \in Requests : Started(r) /\ req[r].file.bytes.id = b}

\* C1: byte-identical uploads cause at most one generation call over the whole
\* run, and every later one is answered with the record of the first, whatever
\* its mode.
C1_OneGenerationPerContent ==
    \A r \in Requests : Started(r) =>
        LET same == Carrying(req[r].file.bytes.id) IN
        /\ Invocations(same) <= 1
        /\ \A q \in same : q > r /\ Finished(r) /\ Finished(q) => resp[q] = resp[r]

\* the fields of a response, as a roast
RoastShown(r) ==
    JDict(<< Member("one_line", resp[r].one_line), Member("overview", resp[r].overview),
             Member("detailed", resp[r].detailed),
             Member("improvements", resp[r].improvements),
             Member("fun_obs", resp[r].fun_obs), Member("score", resp[r].score) >>)

\* C2: an upload that reached generation always ends in a rendered result, never
\* in an error; when the upstream call raised, the result is the fallback record.
C2_GenerationNeverFails ==
    \A r \in Requests : invoked[r] >= 1 /\ Finished(r) =>
        /\ resp[r].status = "result"
        /\ upstream[r].raises => RoastShown(r) = Fallback

\* the range the prompts ask the score to be in
ScoreMin == 20
ScoreMax == 95
InRange(v) == v.k = "int" /\ ScoreMin <= v.i /\ v.i <= ScoreMax
\* the fields the prompt of a mode asks for
Required(mode) ==
    IF mode = "full"
    THEN {"one_line", "overview", "detailed", "improvements", "fun_obs"}
    ELSE {"one_line", "overview", "fun_obs"}
NonEmptyText(v) == v.k = "str" /\ v.s # ""

\* C3: whatever output the model returns, normalization raises nothing and the
\* record has every field its mode requires as a non-empty string and an integer
\* score in the range; every row of roasts has a score in the range.
C3_TotalNormalization ==
    /\ \A r \in Requests : Finished(r) /\ ~upstream[r].raises =>
          /\ resp[r].status = "result"
          /\ \A f \in Required(req[r].mode) : NonEmptyText(DictGet(RoastShown(r), f, JNone))
          /\ InRange(resp[r].score)
    /\ \A n \in 1..Len(roasts) : InRange(roasts[n].score)

\* C4: of the uploads one caller sends on one day, never more than the threshold
\* of 10 reach the upstream call; once a burst of more than 10 is over, exactly 10
\* have reached it and the others were rejected as over the limit.
C4_DailyThreshold ==
    /\ Len(created) <= 10
    /\ (\A r \in Requests : Finished(r)) /\ Cardinality(Requests) > 10 =>
          /\ Len(created) = 10
          /\ Cardinality({r \in Requests : resp[r].status = "limit_exceeded"})
                = Cardinality(Requests) - 10

\* a file of an unsupported extension, or one no text can be read from
Supported == {"pdf", "docx", "doc", "txt"}
Unusable(file) == file.ext \notin Supported \/ extract_text_from_file(file) = <<>>

\* C5: an upload of an unsupported or unreadable file never reaches the upstream
\* call, stores no row and ends in an error shown to the user.
C5_UnusableFileRejected ==
    \A r \in Requests : Started(r) /\ Unusable(req[r].file) =>
        /\ invoked[r] = 0
        /\ pc[r] # "done"
        /\ Finished(r) => resp[r].status = "error"

\* lb is the n first rows of the table in score order, ties by created_at, both descending
TopRows(rows, table) ==
    /\ Len(rows) = (IF Len(table) < LeaderboardLimit THEN Len(table) ELSE LeaderboardLimit)
    /\ \A i, j \in 1..Len(rows) : i < j =>
          /\ ~ScoreAbove(rows[j].score, rows[i].score)
          /\ ~ScoreAbove(rows[i].score, rows[j].score) => rows[i].created_at >= rows[j].created_at
    /\ \A i \in 1..Len(rows), n \in 1..Len(table) :
          ScoreAbove(table[n].score, rows[i].score) =>
              \E j \in 1..Len(rows) : rows[j] = Selected(table[n])

\* every answer of GET /leaderboard is in the order of the query, cut to its LIMIT
LeaderboardOrdered == [][leaderboard => TopRows(lb', roasts)]_vars

\* C6: the leaderboard shows at most LIMIT rows, the highest scores first and equal
\* scores by creation time descending, and two queries over an unchanged table
\* return the same sequence.
C6_LeaderboardStable ==
    [][ /\ leaderboard => TopRows(lb', roasts)
        /\ leaderboard /\ lbAt = Len(roasts) => lb' = lb ]_vars

\* C7: an object that stands after prose, inside a code fence or has a comma before
\* its closing brace is extracted and repaired: the result shows its field values,
\* not the fallback record.
C7_ObjectRecovered ==
    \A r \in Requests, shape \in Shapes :
        /\ Finished(r) /\ ~upstream[r].raises
        /\ shape.core \in PlainCores
        /\ shape.tr # <<>> \/ shape.wrap # "bare"
        /\ upstream[r].text = Render(shape)
        => /\ resp[r].status = "result"
           /\ resp[r].score = DictGet(Intended(shape), "score", JNone)
           /\ resp[r].one_line = DictGet(Intended(shape), "one_line", JNone)

\* C8: every roast_resume call sends exactly one upstream request, whatever the
\* upstream does, and every upload invokes roast_resume at most once, and only
\* once its file is read.
C8_OneUpstreamRequestPerCall ==
    /\ Len(created) = Invocations(Requests)
    /\ \A r \in Requests :
          invoked[r] = (IF pc[r] \in {"calling", "done", "error"} THEN 1 ELSE 0)
C8_Witness ==
    \E r, q \in Requests :
        /\ pc[r] = "error" /\ upstream[r].raises
        /\ pc[q] = "done" /\ resp[q].score = JInt(25)
        /\ Len(created) = 2

\* the row upload stores for the response of request r at time t
RowShown(r, t) ==
    [name |-> resp[r].name, score |-> IntegerAffinity(resp[r].score),
     one_line |-> TextAffinity(resp[r].one_line),
     overview |-> TextAffinity(resp[r].overview),
     detailed |-> TextAffinity(resp[r].detailed),
     improvements |-> TextAffinity(resp[r].improvements),
     fun_obs |-> TextAffinity(resp[r].fun_obs), created_at |-> CreatedAt(t)]

\* C9: roasts is append-only. No step changes or removes a row; a step in which an
\* upload completes adds exactly one row, the one it shows, stamped with the time of
\* the insert; every other step (GET /, GET /leaderboard among them) leaves the
\* table as it is.
C9_AppendOnly ==
    [][ /\ \A n \in 1..Len(roasts) : n <= Len(roasts') /\ roasts'[n] = roasts[n]
        /\ \A r \in Requests : pc[r] # "done" /\ pc'[r] = "done" =>
              /\ Len(roasts') = Len(roasts) + 1
              /\ roasts'[Len(roasts')] = RowShown(r, now)'
        /\ (\A r \in Requests : pc'[r] = "done" => pc[r] = "done") => roasts' = roasts
        /\ home \/ leaderboard => roasts' = roasts ]_vars
C9_Witness ==
    /\ Len(roasts) = 3
    /\ roasts[1] = EarlierRow
    /\ roasts[2].name = roasts[3].name
    /\ roasts[2].created_at < roasts[3].created_at
    /\ lbAt = 2

\* C10: upload inserts only after roast_resume returned. Invoking roast_resume
\* stores nothing; a request that fails in roast_resume or in reading its result
\* ends in an error with the table as the failing step found it; a row appears only
\* as a request whose upstream call returned completes.
C10_NoRowForFailedRequest ==
    [][ /\ \A r \in Requests :
              /\ pc[r] = "reading" /\ pc'[r] = "calling" => roasts' = roasts
              /\ pc[r] = "calling" /\ pc'[r] = "error" =>
                    roasts' = roasts /\ resp'[r].status = "error"
        /\ roasts' # roasts =>
              \E r \in Requests :
                  /\ pc[r] = "calling" /\ pc'[r] = "done" /\ ~upstream'[r].raises
                  /\ Len(roasts') = Len(roasts) + 1 ]_vars
C10_Witness ==
    \E r, q \in Requests :
        /\ pc[r] = "error" /\ upstream[r].raises
        /\ pc[q] = "error" /\ resp[q].error = "AttributeError"
        /\ roasts = <<>>

====
